---- MODULE Spec2Model ----
(***************************************************************************)
(* Model of utils/raster.py (RasterConnection) and utils/treemap.py        *)
(* (TreeMapConnection, convert_treemap_data_to_fastfuels).                 *)
(*                                                                         *)
(* Coordinates are integers.  Bounds are 4-tuples <<minx,miny,maxx,maxy>>  *)
(* (index 1..4 here, 0..3 in the Python source).  A raster is a regular    *)
(* grid given by its bounds and its cell size.  Two coordinate reference   *)
(* systems are modelled: "R", whose unit is the base unit, and "Q", whose  *)
(* unit is two base units, so that reprojecting is a change of scale.      *)
(***************************************************************************)
EXTENDS Integers, Sequences, FiniteSets, TLC

VARIABLES
    table_file,    \* what the tree table files on disk hold
    ctor,          \* the arguments of the last constructor call
    conn,          \* the connection object: its fields after __init__
    err,           \* class name of the exception raised by the last call, "none" if it returned
    caller_roi,    \* the caller's region of interest (a GeoDataFrame, never mutated)
    last,          \* the last raster call: its arguments and what it returned
    pc,            \* position inside query_trees_by_plots
    plot_ids,      \* local of query_trees_by_plots (line 80)
    trees_delayed, \* local of query_trees_by_plots: the lazy dask frame
    trees,         \* local of query_trees_by_plots: the computed pandas frame
    ops,           \* the frame operations applied so far in the running query, in order
    sample         \* the TreeSample returned by the last query

vars == <<table_file, ctor, conn, err, caller_roi, last, pc, plot_ids, trees_delayed, trees, ops, sample>>

\* ------------------------------------------------------------------ bounds
MaxCoord == 3      \* the lower-left vertex of a ROI has coordinates in 0..MaxCoord
MaxSize == 2       \* the width and height of a ROI range over 0..MaxSize
MaxPad == 2        \* projection_padding_meters ranges over 0..MaxPad
MaxCells == 2      \* interpolation_padding_cells ranges over 0..MaxCells
MaxRows == 2       \* rows in a tree table file
MaxBlock == 2      \* rows per partition when the table is read lazily
MaxPlots == 2      \* rows of the plots frame handed to a query

\* ------------------------------------------------------------- arithmetic
Min(a, b) == IF a <= b THEN a ELSE b
Max(a, b) == IF a >= b THEN a ELSE b
Abs(a) == IF a < 0 THEN 0 - a ELSE a

\* ------------------------------------------------------------------- CRS
CRSs == {"R", "Q"}

\* Size of one unit of a CRS, in base units.
Unit(crs) == IF crs = "R" THEN 1 ELSE 2

\* Coordinate transform between two CRSs (pyproj, behind to_crs / reproject).
Transform(v, from, to) == (v * Unit(from)) \div Unit(to)

\* ------------------------------------------------------------------- ROI
\* A GeoDataFrame: a geometry given by its vertices, and a crs.  The ROIs
\* are the rectangles with a lower-left vertex in Coords x Coords.
Coords == 0..MaxCoord
Box(x, y, w, h) == {<<x, y>>, <<x + w, y>>, <<x + w, y + h>>, <<x, y + h>>}
ROIs ==
    { [vertices |-> Box(x, y, w, h), crs |-> c] :
        x \in Coords, y \in Coords, w \in 0..MaxSize, h \in 0..MaxSize, c \in CRSs }

SetMin(S) == CHOOSE m \in S : \A x \in S : m <= x
SetMax(S) == CHOOSE m \in S : \A x \in S : m >= x

\* GeoDataFrame.total_bounds
total_bounds(roi) ==
    << SetMin({v[1] : v \in roi.vertices}), SetMin({v[2] : v \in roi.vertices}),
       SetMax({v[1] : v \in roi.vertices}), SetMax({v[2] : v \in roi.vertices}) >>

\* GeoDataFrame.to_crs
to_crs(roi, crs) ==
    [ vertices |-> { << Transform(v[1], roi.crs, crs), Transform(v[2], roi.crs, crs) >> :
                       v \in roi.vertices },
      crs |-> crs ]

\* ---------------------------------------------------------------- rasters
\* What rioxarray.open_rasterio finds at a raster path: crs, signed cell
\* size along x, bounds.  A path that is not in the domain cannot be opened.
RasterFiles ==
    [ r \in {"small.tif", "wide.tif"} |->
        IF r = "small.tif"
        THEN [crs |-> "R", resolution |-> 2, bounds |-> <<2, 2, 6, 6>>]
        ELSE [crs |-> "R", resolution |-> 0 - 4, bounds |-> <<0 - 8, 0 - 8, 16, 16>>] ]

RasterPaths == DOMAIN RasterFiles \cup {"missing.tif"}

\* The raster paths handed to TreeMapConnection.
TreeMapPaths == {"small.tif", "missing.tif"}

NoBounds == <<0, 0, 0, 0>>

\* A DataArray, as far as its georeferencing goes: a grid with cell size res
\* whose cell edges lie on bounds[1] + k*res and bounds[2] + k*res.
Grid(crs, res, bounds) == [crs |-> crs, res |-> res, bounds |-> bounds]

NoGrid == Grid("R", 0, NoBounds)

\* Largest cell edge <= v and smallest cell edge >= v.
SnapDown(v, origin, res) == origin + ((v - origin) \div res) * res
SnapUp(v, origin, res) == origin - (((origin - v) \div res) * res)

\* rio.clip_box(minx, miny, maxx, maxy): the cells of the grid that the box
\* touches.  ok is FALSE when no cell is left (NoDataInBounds).
clip_box(g, minx, miny, maxx, maxy) ==
    LET b == << Max(g.bounds[1], SnapDown(minx, g.bounds[1], g.res)),
                Max(g.bounds[2], SnapDown(miny, g.bounds[2], g.res)),
                Min(g.bounds[3], SnapUp(maxx, g.bounds[1], g.res)),
                Min(g.bounds[4], SnapUp(maxy, g.bounds[2], g.res)) >>
    IN  IF b[1] < b[3] /\ b[2] < b[4]
        THEN [ok |-> TRUE, grid |-> Grid(g.crs, g.res, b)]
        ELSE [ok |-> FALSE, grid |-> NoGrid]

\* rio.reproject(dst_crs): the same extent on a grid of the destination CRS.
reproject(g, crs) ==
    Grid(crs, Transform(g.res, g.crs, crs),
         << Transform(g.bounds[1], g.crs, crs), Transform(g.bounds[2], g.crs, crs),
            Transform(g.bounds[3], g.crs, crs), Transform(g.bounds[4], g.crs, crs) >>)

\* ------------------------------------------------------- RasterConnection
allowed_connection_types == {"rioxarray"}

ConnectionTypes == {"rioxarray", "gdal"}

NoConn ==
    [ state |-> "new", cls |-> "none", connection_type |-> "none",
      raster_crs |-> "R", raster_resolution |-> 0, raster_bounds |-> NoBounds,
      version |-> "none", tl_key |-> "none", tree_table |-> <<>> ]

\* The exception RasterConnection.__init__ raises, "none" if it returns.
RasterInitError(raster_path, connection_type) ==
    IF connection_type \notin allowed_connection_types THEN "ValueError"
    ELSE IF raster_path \notin DOMAIN RasterFiles THEN "RasterioIOError"
    ELSE "none"

\* The fields RasterConnection.__init__ sets on self.
RasterFields(self, raster_path, connection_type) ==
    [ self EXCEPT
        !.state = "open",
        !.connection_type = connection_type,
        !.raster_crs = RasterFiles[raster_path].crs,
        !.raster_resolution = Abs(RasterFiles[raster_path].resolution),
        !.raster_bounds = RasterFiles[raster_path].bounds ]

\* self.raster of an open connection.
Raster(self) == Grid(self.raster_crs, self.raster_resolution, self.raster_bounds)

\* roi_within_raster_bounds with the min-x comparison made strict.
roi_within_raster_bounds_strict(self, roi) ==
    LET roi_reprojected == to_crs(roi, self.raster_crs)
        roi_bounds == total_bounds(roi_reprojected)
    IN  /\ roi_bounds[1] > self.raster_bounds[1]
        /\ roi_bounds[2] >= self.raster_bounds[2]
        /\ roi_bounds[3] <= self.raster_bounds[3]
        /\ roi_bounds[4] <= self.raster_bounds[4]

\* RasterConnection.roi_within_raster_bounds
roi_within_raster_bounds(self, roi) ==
    LET roi_reprojected == to_crs(roi, self.raster_crs)
        roi_bounds == total_bounds(roi_reprojected)
    IN  /\ roi_bounds[1] >= self.raster_bounds[1]
        /\ roi_bounds[2] >= self.raster_bounds[2]
        /\ roi_bounds[3] <= self.raster_bounds[3]
        /\ roi_bounds[4] <= self.raster_bounds[4]

\* _extract_window_rioxarray padding the ROI box by the cell count alone.
extract_window_rioxarray_cells(self, roi, projection_padding_meters, interpolation_padding_cells) ==
    LET roi_bounds ==
            IF roi.crs # self.raster_crs
            THEN total_bounds(to_crs(roi, self.raster_crs))
            ELSE total_bounds(roi)
        roi_padded_bounds ==
            << roi_bounds[1] - projection_padding_meters,
               roi_bounds[2] - projection_padding_meters,
               roi_bounds[3] + projection_padding_meters,
               roi_bounds[4] + projection_padding_meters >>
        window == clip_box(Raster(self), roi_padded_bounds[1], roi_padded_bounds[2],
                           roi_padded_bounds[3], roi_padded_bounds[4])
        window_reprojected ==
            IF roi.crs # self.raster_crs
            THEN reproject(window.grid, roi.crs)
            ELSE window.grid
        roi_padded ==
            << total_bounds(roi)[1] - interpolation_padding_cells,
               total_bounds(roi)[2] - interpolation_padding_cells,
               total_bounds(roi)[3] + interpolation_padding_cells,
               total_bounds(roi)[4] + interpolation_padding_cells >>
    IN  IF ~window.ok THEN window
        ELSE clip_box(window_reprojected, roi_padded[1], roi_padded[2],
                      roi_padded[3], roi_padded[4])

\* _extract_window_rioxarray with the max-x projection padding subtracted.
extract_window_rioxarray_sign(self, roi, projection_padding_meters, interpolation_padding_cells) ==
    LET roi_bounds ==
            IF roi.crs # self.raster_crs
            THEN total_bounds(to_crs(roi, self.raster_crs))
            ELSE total_bounds(roi)
        roi_padded_bounds ==
            << roi_bounds[1] - projection_padding_meters,
               roi_bounds[2] - projection_padding_meters,
               roi_bounds[3] - projection_padding_meters,
               roi_bounds[4] + projection_padding_meters >>
        window == clip_box(Raster(self), roi_padded_bounds[1], roi_padded_bounds[2],
                           roi_padded_bounds[3], roi_padded_bounds[4])
        window_reprojected ==
            IF roi.crs # self.raster_crs
            THEN reproject(window.grid, roi.crs)
            ELSE window.grid
        roi_padded ==
            << total_bounds(roi)[1] - interpolation_padding_cells * self.raster_resolution,
               total_bounds(roi)[2] - interpolation_padding_cells * self.raster_resolution,
               total_bounds(roi)[3] + interpolation_padding_cells * self.raster_resolution,
               total_bounds(roi)[4] + interpolation_padding_cells * self.raster_resolution >>
    IN  IF ~window.ok THEN window
        ELSE clip_box(window_reprojected, roi_padded[1], roi_padded[2],
                      roi_padded[3], roi_padded[4])

\* RasterConnection._extract_window_rioxarray.  ok is FALSE when one of the
\* two clips raises NoDataInBounds, which the method lets through.
extract_window_rioxarray(self, roi, projection_padding_meters, interpolation_padding_cells) ==
    LET roi_bounds ==
            IF roi.crs # self.raster_crs
            THEN total_bounds(to_crs(roi, self.raster_crs))
            ELSE total_bounds(roi)
        roi_padded_bounds ==
            << roi_bounds[1] - projection_padding_meters,
               roi_bounds[2] - projection_padding_meters,
               roi_bounds[3] + projection_padding_meters,
               roi_bounds[4] + projection_padding_meters >>
        window == clip_box(Raster(self), roi_padded_bounds[1], roi_padded_bounds[2],
                           roi_padded_bounds[3], roi_padded_bounds[4])
        window_reprojected ==
            IF roi.crs # self.raster_crs
            THEN reproject(window.grid, roi.crs)
            ELSE window.grid
        roi_padded ==
            << total_bounds(roi)[1] - interpolation_padding_cells * self.raster_resolution,
               total_bounds(roi)[2] - interpolation_padding_cells * self.raster_resolution,
               total_bounds(roi)[3] + interpolation_padding_cells * self.raster_resolution,
               total_bounds(roi)[4] + interpolation_padding_cells * self.raster_resolution >>
    IN  IF ~window.ok THEN window
        ELSE clip_box(window_reprojected, roi_padded[1], roi_padded[2],
                      roi_padded[3], roi_padded[4])

\* RasterConnection.extract_window: dispatch on the connection type.
extract_window(self, roi, projection_padding_meters, interpolation_padding_cells) ==
    IF self.connection_type = "rioxarray"
    THEN extract_window_rioxarray(self, roi, projection_padding_meters,
                                  interpolation_padding_cells)
    ELSE [ok |-> FALSE, grid |-> NoGrid]

\* ------------------------------------------------------------- tree table
\* A missing value in a numeric column (what notnull() tests for).
NaN == 0 - 1

Range(f) == {f[i] : i \in DOMAIN f}

SeqsUpTo(S, n) == UNION {[1..k -> S] : k \in 0..n}

\* A row of the TreeMap tree table.  tl_id and tm_id are the plot-linkage
\* keys of the 2014 and 2016 tables; CN stands for the columns the query
\* does not select.
TableRow(k, actualht) ==
    [ tl_id |-> k, tm_id |-> k + 1, CN |-> 7, SPCD |-> 200 + k, STATUSCD |-> 1,
      DIA |-> 10, HT |-> 10 + 5 * k, ACTUALHT |-> actualht, CR |-> 50,
      TPA_UNADJ |-> 100 ]

TableRows == {TableRow(k, a) : k \in 1..2, a \in {NaN, 12}}

PlotIdValues == 1..3

\* A table file: its rows, and how many of them the lazy reader puts in one
\* partition.
TableFiles == [rows : SeqsUpTo(TableRows, MaxRows), blocksize : 1..MaxBlock]

\* dd.read_csv / dd.read_parquet: the partitions of the lazy frame.  Every
\* partition carries its own row index, starting at 0.
read_table(file) ==
    LET n == Len(file.rows)
        bs == file.blocksize
        nparts == (n + bs - 1) \div bs
    IN  [ k \in 1..nparts |->
            [ i \in 1..Min(bs, n - (k - 1) * bs) |->
                [index |-> i - 1, cols |-> file.rows[(k - 1) * bs + i]] ] ]

\* A dask frame: source partitions and the deferred operations on them.
LazyFrame(parts, graph) == [parts |-> parts, graph |-> graph]

NoFrame == LazyFrame(<<>>, <<>>)

\* frame[frame[key].isin(ids)] on one partition: rows keep their index.
isin_filter(part, key, ids) ==
    SelectSeq(part, LAMBDA e : e.cols[key] \in Range(ids))

\* reset_index renumbering the rows and discarding the old index.
reset_index_positional(part) ==
    [ i \in 1..Len(part) |->
        [index |-> i - 1, cols |-> part[i].cols @@ ("index" :> i - 1)] ]

\* reset_index() on one partition: the old index becomes the column
\* "index", the new index counts the rows of the partition from 0.
reset_index(part) ==
    [ i \in 1..Len(part) |->
        [index |-> i - 1, cols |-> part[i].cols @@ ("index" :> part[i].index)] ]

\* One row with the column from renamed to to.
rename_row(cols, from, to) ==
    IF from \notin DOMAIN cols THEN cols
    ELSE [ c \in (DOMAIN cols \ {from}) \cup {to} |->
             IF c = to THEN cols[from] ELSE cols[c] ]

\* rename(columns={from: to}) on one partition.
rename_columns(part, from, to) ==
    [i \in 1..Len(part) |-> [part[i] EXCEPT !.cols = rename_row(part[i].cols, from, to)]]

\* frame[[names]] on one partition.
select_columns(part, names) ==
    [i \in 1..Len(part) |-> [part[i] EXCEPT !.cols = [c \in names |-> part[i].cols[c]]]]

\* A column-wide fallback: ACTUALHT is used only if no row of the partition
\* misses it.
coalesce_height_columnwide(part) ==
    [ i \in 1..Len(part) |->
        [ part[i] EXCEPT !.cols["HT"] =
            IF \A j \in 1..Len(part) : part[j].cols["ACTUALHT"] # NaN
            THEN part[i].cols["ACTUALHT"]
            ELSE part[i].cols["HT"] ] ]

\* frame["HT"] = frame["ACTUALHT"].where(frame["ACTUALHT"].notnull(), frame["HT"])
coalesce_height(part) ==
    [ i \in 1..Len(part) |->
        [ part[i] EXCEPT !.cols["HT"] =
            IF part[i].cols["ACTUALHT"] # NaN
            THEN part[i].cols["ACTUALHT"]
            ELSE part[i].cols["HT"] ] ]

\* drop(columns=names) on one partition.
drop_columns(part, names) ==
    [ i \in 1..Len(part) |->
        [part[i] EXCEPT !.cols = [c \in DOMAIN part[i].cols \ names |-> part[i].cols[c]]] ]

\* One deferred operation applied to one partition.
ApplyOp(op, part) ==
    CASE op.name = "isin_filter" -> isin_filter(part, op.key, op.ids)
      [] op.name = "reset_index" -> reset_index(part)
      [] op.name = "rename" -> rename_columns(part, op.from, op.to)
      [] op.name = "select" -> select_columns(part, op.names)
      [] op.name = "coalesce_height" -> coalesce_height(part)
      [] op.name = "drop" -> drop_columns(part, op.names)

RECURSIVE ApplyGraph(_, _)
ApplyGraph(graph, part) ==
    IF graph = <<>> THEN part
    ELSE ApplyGraph(Tail(graph), ApplyOp(Head(graph), part))

RECURSIVE Concat(_)
Concat(parts) == IF parts = <<>> THEN <<>> ELSE Head(parts) \o Concat(Tail(parts))

\* frame.compute(): runs the deferred operations on every partition and
\* concatenates the partitions into one pandas frame.
compute(frame) ==
    Concat([k \in 1..Len(frame.parts) |-> ApplyGraph(frame.graph, frame.parts[k])])

\* A deferred operation added to a lazy frame.
Defer(frame, op) == LazyFrame(frame.parts, Append(frame.graph, op))

\* Series.unique().tolist(): the distinct values in order of first appearance.
RECURSIVE unique(_)
unique(values) ==
    IF values = <<>> THEN <<>>
    ELSE LET front == unique(SubSeq(values, 1, Len(values) - 1))
             v == values[Len(values)]
         IN  IF v \in Range(front) THEN front ELSE Append(front, v)

\* A value multiplied by num/den, kept as the fraction <<numerator, denominator>>.
Scaled(v, num, den) == <<v * num, den>>

\* convert_treemap_data_to_fastfuels, on one row.
convert_row(cols) ==
    rename_row(
        [ c \in DOMAIN cols |->
            CASE c = "CR" -> Scaled(cols[c], 1, 100)
              [] c = "HT" -> Scaled(cols[c], 3048, 10000)
              [] c = "DIA" -> Scaled(cols[c], 254, 100)
              [] c = "TPA_UNADJ" -> Scaled(cols[c], 247105, 100000 * 10000)
              [] OTHER -> cols[c] ],
        "TPA_UNADJ", "TPA")

\* convert_treemap_data_to_fastfuels
convert_treemap_data_to_fastfuels(data) ==
    [i \in 1..Len(data) |-> [data[i] EXCEPT !.cols = convert_row(data[i].cols)]]

\* ------------------------------------------------------ TreeMapConnection
\* Paths are sequences of characters.
CsvPath(stem) == <<stem, ".", "c", "s", "v">>
ParquetPath(stem) == <<stem, ".", "p", "a", "r", "q", "u", "e", "t">>
TxtPath(stem) == <<stem, ".", "t", "x", "t">>

\* The table paths that exist on disk, and all the paths a caller tries.
ExistingTablePaths == {CsvPath("t"), ParquetPath("t"), TxtPath("t")}
TablePaths == ExistingTablePaths \cup {CsvPath("n"), ParquetPath("n"), TxtPath("n")}

Versions == {"2014", "2016", "2020"}

\* str.endswith
endswith(str, suffix) ==
    /\ Len(str) >= Len(suffix)
    /\ SubSeq(str, Len(str) - Len(suffix) + 1, Len(str)) = suffix

\* TreeMapConnection.__init__ without the parquet branch.
TreeMapInitError_csv_only(treemap_path, tree_table_path, version) ==
    IF version \notin {"2014", "2016"} THEN "ValueError"
    ELSE IF RasterInitError(treemap_path, "rioxarray") # "none"
    THEN RasterInitError(treemap_path, "rioxarray")
    ELSE IF endswith(tree_table_path, <<".", "c", "s", "v">>)
    THEN IF tree_table_path \in ExistingTablePaths THEN "none" ELSE "FileNotFoundError"
    ELSE "NotImplementedError"

\* The exception TreeMapConnection.__init__ raises, "none" if it returns.
TreeMapInitError(treemap_path, tree_table_path, version) ==
    IF version \notin {"2014", "2016"} THEN "ValueError"
    ELSE IF RasterInitError(treemap_path, "rioxarray") # "none"
    THEN RasterInitError(treemap_path, "rioxarray")
    ELSE IF endswith(tree_table_path, <<".", "c", "s", "v">>)
    THEN IF tree_table_path \in ExistingTablePaths THEN "none" ELSE "FileNotFoundError"
    ELSE IF endswith(tree_table_path, <<".", "p", "a", "r", "q", "u", "e", "t">>)
    THEN IF tree_table_path \in ExistingTablePaths THEN "none" ELSE "FileNotFoundError"
    ELSE "NotImplementedError"

\* self._tl_key with the two versions exchanged.
tl_key_swapped(version) == IF version = "2014" THEN "tm_id" ELSE "tl_id"

\* self._tl_key
tl_key(version) == IF version = "2014" THEN "tl_id" ELSE "tm_id"

\* ------------------------------------------------------------ constructors
NoCall ==
    [ op |-> "none", pp |-> 0, ip |-> 0, ok |-> FALSE, grid |-> NoGrid, within |-> FALSE ]

NoCtor ==
    [ cls |-> "none", raster_path |-> "none", connection_type |-> "none",
      tree_table_path |-> <<>>, version |-> "none" ]

QueryIdle ==
    /\ pc = "idle"
    /\ UNCHANGED <<pc, plot_ids, trees_delayed, trees, ops, sample>>

\* RasterConnection(raster_path, connection_type): the one connection of a run.
RasterConnectionInit ==
    \E raster_path \in RasterPaths, connection_type \in ConnectionTypes :
        /\ conn.state = "new"
        /\ ctor' = [NoCtor EXCEPT !.cls = "RasterConnection", !.raster_path = raster_path,
                                  !.connection_type = connection_type]
        /\ err' = RasterInitError(raster_path, connection_type)
        /\ conn' = IF err' = "none"
                   THEN RasterFields([NoConn EXCEPT !.cls = "RasterConnection"],
                                     raster_path, connection_type)
                   ELSE [NoConn EXCEPT !.state = "failed", !.cls = "RasterConnection"]
        /\ last' = NoCall
        /\ UNCHANGED <<table_file, caller_roi>>
        /\ QueryIdle

\* TreeMapConnection(treemap_path, tree_table_path, version): the one
\* connection of a run.
TreeMapConnectionInit ==
    \E treemap_path \in TreeMapPaths, tree_table_path \in TablePaths, version \in Versions :
        /\ conn.state = "new"
        /\ ctor' = [NoCtor EXCEPT !.cls = "TreeMapConnection", !.raster_path = treemap_path,
                                  !.connection_type = "rioxarray",
                                  !.tree_table_path = tree_table_path,
                                  !.version = version]
        /\ err' = TreeMapInitError(treemap_path, tree_table_path, version)
        /\ conn' = IF err' = "none"
                   THEN [ RasterFields([NoConn EXCEPT !.cls = "TreeMapConnection"],
                                       treemap_path, "rioxarray")
                          EXCEPT !.version = version,
                                 !.tl_key = tl_key(version),
                                 !.tree_table = read_table(table_file) ]
                   ELSE [NoConn EXCEPT !.state = "failed", !.cls = "TreeMapConnection"]
        /\ last' = NoCall
        /\ UNCHANGED <<table_file, caller_roi>>
        /\ QueryIdle

\* ------------------------------------------------------------ raster calls
\* conn.roi_within_raster_bounds(roi)
RoiWithinRasterBounds ==
    /\ conn.state = "open"
    /\ last' = [NoCall EXCEPT !.op = "roi_within_raster_bounds", !.ok = TRUE,
                              !.within = roi_within_raster_bounds(conn, caller_roi)]
    /\ err' = "none"
    /\ UNCHANGED <<table_file, ctor, conn, caller_roi>>
    /\ QueryIdle

\* conn.extract_window(roi, projection_padding_meters, interpolation_padding_cells)
ExtractWindow ==
    \E pp \in 0..MaxPad, ip \in 0..MaxCells :
        LET clip == extract_window(conn, caller_roi, pp, ip)
        IN  /\ conn.state = "open"
            /\ last' = [NoCall EXCEPT !.op = "extract_window", !.pp = pp, !.ip = ip,
                                      !.ok = clip.ok, !.grid = clip.grid]
            /\ err' = IF clip.ok THEN "none" ELSE "NoDataInBounds"
            /\ UNCHANGED <<table_file, ctor, conn, caller_roi>>
            /\ QueryIdle

\* ------------------------------------------------ query_trees_by_plots
\* The steps of conn.query_trees_by_plots(plots), one per statement.
QueryStep(from, to) ==
    /\ pc = from
    /\ pc' = to
    /\ UNCHANGED <<table_file, ctor, conn, err, caller_roi, last>>

\* line 80: plot_ids = plots["PLOT_ID"].unique().tolist()
Query_unique ==
    \E plots \in SeqsUpTo(PlotIdValues, MaxPlots) :
        /\ conn.state = "open" /\ conn.cls = "TreeMapConnection"
        /\ QueryStep("idle", "filter")
        /\ plot_ids' = unique(plots)
        /\ trees_delayed' = NoFrame
        /\ trees' = <<>>
        /\ ops' = <<>>
        /\ sample' = <<>>

\* line 81: trees_delayed = self._tree_table[self._tree_table[key].isin(plot_ids)]
Query_filter ==
    /\ QueryStep("filter", "reset_index")
    /\ trees_delayed' = Defer(LazyFrame(conn.tree_table, <<>>),
                              [name |-> "isin_filter", key |-> conn.tl_key, ids |-> plot_ids])
    /\ ops' = Append(ops, "isin_filter")
    /\ UNCHANGED <<plot_ids, trees, sample>>

\* line 82: trees_delayed.reset_index().rename(columns={"index": "TREE_ID"})
Query_reset_index ==
    /\ QueryStep("reset_index", "select")
    /\ trees_delayed' = Defer(Defer(trees_delayed, [name |-> "reset_index"]),
                              [name |-> "rename", from |-> "index", to |-> "TREE_ID"])
    /\ ops' = ops \o <<"reset_index", "rename_TREE_ID">>
    /\ UNCHANGED <<plot_ids, trees, sample>>

\* lines 83-95: the column projection
Query_select ==
    /\ QueryStep("select", "coalesce")
    /\ trees_delayed' = Defer(trees_delayed,
                              [name |-> "select",
                               names |-> {"TREE_ID", conn.tl_key, "SPCD", "STATUSCD", "DIA",
                                          "HT", "ACTUALHT", "CR", "TPA_UNADJ"}])
    /\ ops' = Append(ops, "select")
    /\ UNCHANGED <<plot_ids, trees, sample>>

\* The height coalesce done on a frame materialized for it.
Query_coalesce_eager ==
    /\ QueryStep("coalesce", "drop")
    /\ trees_delayed' = Defer(trees_delayed, [name |-> "coalesce_height"])
    /\ ops' = ops \o <<"compute", "coalesce_height">>
    /\ UNCHANGED <<plot_ids, trees, sample>>

\* lines 96-98: HT = ACTUALHT where it is not null, else HT
Query_coalesce ==
    /\ QueryStep("coalesce", "drop")
    /\ trees_delayed' = Defer(trees_delayed, [name |-> "coalesce_height"])
    /\ ops' = Append(ops, "coalesce_height")
    /\ UNCHANGED <<plot_ids, trees, sample>>

\* line 99: trees_delayed.drop(columns=["ACTUALHT"])
Query_drop ==
    /\ QueryStep("drop", "compute")
    /\ trees_delayed' = Defer(trees_delayed, [name |-> "drop", names |-> {"ACTUALHT"}])
    /\ ops' = Append(ops, "drop_ACTUALHT")
    /\ UNCHANGED <<plot_ids, trees, sample>>

\* line 100: trees = trees_delayed.compute()
Query_compute ==
    /\ QueryStep("compute", "rename")
    /\ trees' = compute(trees_delayed)
    /\ ops' = Append(ops, "compute")
    /\ UNCHANGED <<plot_ids, trees_delayed, sample>>

\* line 101: trees = trees.rename(columns={self._tl_key: "PLOT_ID"})
Query_rename ==
    /\ QueryStep("rename", "convert")
    /\ trees' = rename_columns(trees, conn.tl_key, "PLOT_ID")
    /\ ops' = Append(ops, "rename_PLOT_ID")
    /\ UNCHANGED <<plot_ids, trees_delayed, sample>>

\* line 103: return convert_treemap_data_to_fastfuels(trees)
Query_return ==
    /\ QueryStep("convert", "idle")
    /\ sample' = convert_treemap_data_to_fastfuels(trees)
    /\ ops' = Append(ops, "return")
    /\ UNCHANGED <<plot_ids, trees_delayed, trees>>

\* --------------------------------------------------------- specifications
NoQuery ==
    /\ pc = "idle"
    /\ plot_ids = <<>>
    /\ trees_delayed = NoFrame
    /\ trees = <<>>
    /\ ops = <<>>
    /\ sample = <<>>

\* Raster calls on a RasterConnection, for every ROI.
InitRaster ==
    /\ table_file = [rows |-> <<>>, blocksize |-> 1]
    /\ ctor = NoCtor
    /\ conn = NoConn
    /\ err = "none"
    /\ caller_roi \in ROIs
    /\ last = NoCall
    /\ NoQuery

NextRaster == RasterConnectionInit \/ RoiWithinRasterBounds \/ ExtractWindow

SpecRaster == InitRaster /\ [][NextRaster]_vars

\* Construction and tree queries, for every table file.
InitTree ==
    /\ table_file \in TableFiles
    /\ ctor = NoCtor
    /\ conn = NoConn
    /\ err = "none"
    /\ caller_roi = [vertices |-> Box(0, 0, 1, 1), crs |-> "R"]
    /\ last = NoCall
    /\ NoQuery

NextTree ==
    \/ RasterConnectionInit
    \/ TreeMapConnectionInit
    \/ Query_unique
    \/ Query_filter
    \/ Query_reset_index
    \/ Query_select
    \/ Query_coalesce
    \/ Query_drop
    \/ Query_compute
    \/ Query_rename
    \/ Query_return

SpecTree == InitTree /\ [][NextTree]_vars

\* ------------------------------------------------- properties: raster.py
\* Base-unit value of a coordinate or distance given in a CRS.
InBase(v, crs) == v * Unit(crs)

Extracted == last.op = "extract_window" /\ last.ok

RoiBoundsRasterCrs == total_bounds(to_crs(caller_roi, conn.raster_crs))

\* The raster has data for both padded boxes of the call.
RasterCoversPadding ==
    LET bR == RoiBoundsRasterCrs
        bQ == total_bounds(caller_roi)
        d == last.ip * conn.raster_resolution
        rb == conn.raster_bounds
    IN  /\ rb[1] <= bR[1] - last.pp /\ rb[2] <= bR[2] - last.pp
        /\ rb[3] >= bR[3] + last.pp /\ rb[4] >= bR[4] + last.pp
        /\ rb[1] <= InBase(bQ[1] - d, caller_roi.crs)
        /\ rb[2] <= InBase(bQ[2] - d, caller_roi.crs)
        /\ rb[3] >= InBase(bQ[3] + d, caller_roi.crs)
        /\ rb[4] >= InBase(bQ[4] + d, caller_roi.crs)

\* C1 (as stated): the window returned by extract_window extends at least
\* projection_padding beyond the ROI bounding box on all four sides, measured
\* in the raster CRS, and at least interpolation_padding * raster_resolution
\* beyond it on all four sides, measured in the ROI CRS.  Stated here for the
\* calls where the raster holds data for both padded boxes.
C1_PaddingGuarantee ==
    (Extracted /\ RasterCoversPadding) =>
        LET w == last.grid.bounds
            wR == [i \in 1..4 |-> Transform(w[i], caller_roi.crs, conn.raster_crs)]
            bR == RoiBoundsRasterCrs
            bQ == total_bounds(caller_roi)
            d == last.ip * conn.raster_resolution
        IN  /\ wR[1] <= bR[1] - last.pp /\ wR[2] <= bR[2] - last.pp
            /\ wR[3] >= bR[3] + last.pp /\ wR[4] >= bR[4] + last.pp
            /\ w[1] <= bQ[1] - d /\ w[2] <= bQ[2] - d
            /\ w[3] >= bQ[3] + d /\ w[4] >= bQ[4] + d

\* C1 (amended): on every side the returned window reaches at least as far
\* as the nearest of three limits: the ROI box padded by projection_padding
\* in the raster CRS, the ROI box padded by
\* interpolation_padding * raster_resolution in the ROI CRS, and the raster's
\* own bounds.  All three are compared in base units.
C1_WindowCoversNearestLimit ==
    Extracted =>
        LET c == caller_roi.crs
            w == last.grid.bounds
            bR == RoiBoundsRasterCrs
            bQ == total_bounds(caller_roi)
            d == last.ip * conn.raster_resolution
            rb == conn.raster_bounds
            lo(i) == Max(Max(InBase(bR[i] - last.pp, conn.raster_crs),
                             InBase(bQ[i] - d, c)),
                         InBase(rb[i], conn.raster_crs))
            hi(i) == Min(Min(InBase(bR[i] + last.pp, conn.raster_crs),
                             InBase(bQ[i] + d, c)),
                         InBase(rb[i], conn.raster_crs))
        IN  /\ InBase(w[1], c) <= lo(1) /\ InBase(w[2], c) <= lo(2)
            /\ InBase(w[3], c) >= hi(3) /\ InBase(w[4], c) >= hi(4)

\* Witness of C1: a window extracted across a CRS change with both paddings
\* positive, that ends strictly inside the raster on the min-x side and falls
\* short of the interpolation-padded box there: the projection padding is
\* the limit that binds.
C1_Witness ==
    /\ Extracted
    /\ caller_roi.crs # conn.raster_crs
    /\ last.pp > 0 /\ last.ip > 0
    /\ InBase(last.grid.bounds[1], caller_roi.crs) > InBase(conn.raster_bounds[1], conn.raster_crs)
    /\ last.grid.bounds[1] > total_bounds(caller_roi)[1] - last.ip * conn.raster_resolution

\* C2: roi_within_raster_bounds is true exactly when all four corners of the
\* bounding box of the ROI, taken in the raster CRS, lie in the closed
\* rectangle of the raster bounds.
C2_WithinIffContained ==
    last.op = "roi_within_raster_bounds" =>
        LET b == RoiBoundsRasterCrs
            rb == conn.raster_bounds
            corners == {<<b[1], b[2]>>, <<b[1], b[4]>>, <<b[3], b[2]>>, <<b[3], b[4]>>}
            inside(pt) == /\ rb[1] <= pt[1] /\ pt[1] <= rb[3]
                          /\ rb[2] <= pt[2] /\ pt[2] <= rb[4]
        IN  last.within <=> (\A pt \in corners : inside(pt))

\* Witness of C2: a reprojected ROI that touches the raster's min-x and
\* max-y edges is reported as within the bounds.
C2_Witness ==
    /\ last.op = "roi_within_raster_bounds"
    /\ last.within
    /\ caller_roi.crs # conn.raster_crs
    /\ RoiBoundsRasterCrs[1] = conn.raster_bounds[1]
    /\ RoiBoundsRasterCrs[4] = conn.raster_bounds[4]

Encloses(outer, inner) ==
    /\ outer[1] <= inner[1] /\ outer[2] <= inner[2]
    /\ outer[3] >= inner[3] /\ outer[4] >= inner[4]

\* C8: for the ROI and raster of an extracted window, extracting again with
\* a larger projection_padding (same interpolation_padding), or with a larger
\* interpolation_padding (same projection_padding), returns a window whose
\* bounding box encloses the first one's.
C8_PaddingMonotone ==
    Extracted =>
        /\ \A pp2 \in last.pp..(MaxPad + 1) :
              LET w2 == extract_window(conn, caller_roi, pp2, last.ip)
              IN  w2.ok /\ Encloses(w2.grid.bounds, last.grid.bounds)
        /\ \A ip2 \in last.ip..(MaxCells + 1) :
              LET w2 == extract_window(conn, caller_roi, last.pp, ip2)
              IN  w2.ok /\ Encloses(w2.grid.bounds, last.grid.bounds)

\* Witness of C8: a window extracted across a CRS change that strictly
\* grows on the min-x side when the projection padding grows, and is still
\* enclosed when the interpolation padding grows.
C8_Witness ==
    /\ Extracted
    /\ caller_roi.crs # conn.raster_crs
    /\ last.pp < MaxPad /\ last.ip > 0 /\ last.ip < MaxCells
    /\ extract_window(conn, caller_roi, last.pp + 1, last.ip).grid.bounds[1]
          < last.grid.bounds[1]
    /\ Encloses(extract_window(conn, caller_roi, last.pp, last.ip + 1).grid.bounds,
                last.grid.bounds)

\* ------------------------------------------------ properties: treemap.py
SupportedVersions == {"2014", "2016"}
UnsupportedTablePaths == {TxtPath("t"), TxtPath("n")}

FailedInit(cls) == conn.state = "failed" /\ ctor.cls = cls

\* The kinds of error raised for an unsupported backend, an invalid version
\* and an unsupported table format, each with everything else valid.
BackendErrors ==
    {RasterInitError(rp, t) : rp \in DOMAIN RasterFiles,
                              t \in ConnectionTypes \ allowed_connection_types}
VersionErrors ==
    {TreeMapInitError(rp, tp, v) : rp \in DOMAIN RasterFiles, tp \in ExistingTablePaths,
                                   v \in Versions \ SupportedVersions}
FormatErrors ==
    {TreeMapInitError(rp, tp, v) : rp \in DOMAIN RasterFiles, tp \in UnsupportedTablePaths,
                                   v \in SupportedVersions}

\* C6: a construction that fails for one of the three causes (unsupported
\* backend, invalid version, unsupported table format) raises a kind of
\* error that no construction failing for another of the three causes raises.
C6_ErrorKindsDistinct ==
    /\ (FailedInit("RasterConnection")
          /\ ctor.connection_type \notin allowed_connection_types)
        => err \notin VersionErrors \cup FormatErrors
    /\ (FailedInit("TreeMapConnection") /\ ctor.version \notin SupportedVersions)
        => err \notin BackendErrors \cup FormatErrors
    /\ (FailedInit("TreeMapConnection") /\ ctor.version \in SupportedVersions
          /\ ctor.raster_path \in DOMAIN RasterFiles
          /\ ctor.tree_table_path \in UnsupportedTablePaths)
        => err \notin BackendErrors \cup VersionErrors

\* A TreeMapConnection construction with a valid version and an openable raster.
TreeMapTableOpen ==
    /\ ctor.cls = "TreeMapConnection"
    /\ ctor.version \in SupportedVersions
    /\ ctor.raster_path \in DOMAIN RasterFiles

\* C7 (as stated): with a valid version and an openable raster, construction
\* fails with the invalid-source-path error (FileNotFoundError) for every
\* table path that does not exist, whatever its extension, and with the
\* unsupported-format error (NotImplementedError) for every extension other
\* than .csv and .parquet.
C7_MissingPathAnyExtension ==
    TreeMapTableOpen =>
        /\ ctor.tree_table_path \notin ExistingTablePaths => err = "FileNotFoundError"
        /\ ctor.tree_table_path \in UnsupportedTablePaths => err = "NotImplementedError"

\* C7 (amended): the extension is looked at first.  A path with an
\* extension other than .csv and .parquet fails with NotImplementedError
\* whether or not it exists; a .csv or .parquet path that does not exist
\* fails with FileNotFoundError; one that exists opens.
C7_ExtensionBeforeExistence ==
    TreeMapTableOpen =>
        /\ ctor.tree_table_path \in UnsupportedTablePaths => err = "NotImplementedError"
        /\ (ctor.tree_table_path \notin UnsupportedTablePaths
              /\ ctor.tree_table_path \notin ExistingTablePaths)
            => err = "FileNotFoundError"
        /\ (ctor.tree_table_path \notin UnsupportedTablePaths
              /\ ctor.tree_table_path \in ExistingTablePaths)
            => (err = "none" /\ conn.state = "open")

\* Witness of C7: a construction that failed on a missing .parquet path.
C7_Witness ==
    /\ TreeMapTableOpen
    /\ conn.state = "failed"
    /\ ctor.tree_table_path = ParquetPath("n")
    /\ err = "FileNotFoundError"

\* A query has returned and its result is in sample.
QueryReturned == pc = "idle" /\ ops # <<>>

\* The plot-linkage key of the connection's version.
LinkKey == IF conn.version = "2014" THEN "tl_id" ELSE "tm_id"

\* The positions, in file order, of the table rows whose plot-linkage key
\* is one of the queried plot ids.
Expected ==
    SelectSeq([j \in 1..Len(table_file.rows) |-> j],
              LAMBDA j : table_file.rows[j][LinkKey] \in Range(plot_ids))

\* C3: the result of a query holds exactly the table rows whose plot-linkage
\* key (tl_id for 2014, tm_id for 2016) is one of the plot ids, in file order.
C3_ExactlyMatchingRows ==
    QueryReturned =>
        /\ Len(sample) = Len(Expected)
        /\ \A i \in 1..Len(sample) :
              /\ sample[i].cols["PLOT_ID"] = table_file.rows[Expected[i]][LinkKey]
              /\ sample[i].cols["PLOT_ID"] \in Range(plot_ids)
              /\ sample[i].cols["SPCD"] = table_file.rows[Expected[i]]["SPCD"]

\* Witness of C3: a query on a 2016 table that returned some rows and left
\* others out.
C3_Witness ==
    /\ QueryReturned
    /\ conn.version = "2016"
    /\ Len(sample) > 0
    /\ Len(sample) < Len(table_file.rows)

\* C4: the TREE_ID values of a query result are pairwise different.
C4_TreeIdUnique ==
    QueryReturned =>
        \A i, j \in 1..Len(sample) :
            i # j => sample[i].cols["TREE_ID"] # sample[j].cols["TREE_ID"]

Position(name) == CHOOSE i \in 1..Len(ops) : ops[i] = name
Count(name) == Cardinality({i \in 1..Len(ops) : ops[i] = name})

LazySteps == {"isin_filter", "reset_index", "rename_TREE_ID", "select",
              "coalesce_height", "drop_ACTUALHT"}

\* C9 (as stated): a query materializes the lazy frame exactly once, after
\* the filter, the TREE_ID assignment, the projection, the height coalesce,
\* the drop of ACTUALHT and the rename of the key to PLOT_ID.
C9_ComputeLast ==
    QueryReturned =>
        /\ Count("compute") = 1
        /\ \A name \in LazySteps \cup {"rename_PLOT_ID"} :
              Count(name) = 1 /\ Position(name) < Position("compute")

\* C9 (amended): a query materializes the lazy frame exactly once, after the
\* filter, the TREE_ID assignment, the projection, the height coalesce and
\* the drop of ACTUALHT; the rename of the key to PLOT_ID is applied after
\* the materialization, to the computed frame.
C9_ComputeOnceRenameAfter ==
    QueryReturned =>
        /\ Count("compute") = 1
        /\ \A name \in LazySteps :
              Count(name) = 1 /\ Position(name) < Position("compute")
        /\ Count("rename_PLOT_ID") = 1
        /\ Position("rename_PLOT_ID") > Position("compute")
        /\ Len(trees_delayed.graph) = Cardinality(LazySteps)

\* Witness of C9: a returned query with rows in its result.
C9_Witness ==
    /\ QueryReturned
    /\ Len(sample) > 1
    /\ ops[Len(ops)] = "return"

\* C10: every row of the computed frame has, as its height before unit
\* conversion, its own ACTUALHT when that is not missing and its own HT
\* otherwise; the result has no ACTUALHT column, and the returned height is
\* that height times 0.3048.
C10_HeightCoalescePerRow ==
    QueryReturned =>
        /\ Len(trees) = Len(Expected)
        /\ \A i \in 1..Len(trees) :
              LET src == table_file.rows[Expected[i]]
                  h == IF src["ACTUALHT"] = NaN THEN src["HT"] ELSE src["ACTUALHT"]
              IN  /\ trees[i].cols["HT"] = h
                  /\ "ACTUALHT" \notin DOMAIN trees[i].cols
                  /\ "ACTUALHT" \notin DOMAIN sample[i].cols
                  /\ sample[i].cols["HT"] = <<h * 3048, 10000>>

\* Witness of C10: a result with a row whose ACTUALHT is missing (height 15
\* from HT) and a row of the same partition whose ACTUALHT is 12.
C10_Witness ==
    /\ QueryReturned
    /\ Len(conn.tree_table) = 1
    /\ \E i, j \in 1..Len(trees) :
          /\ table_file.rows[Expected[i]]["ACTUALHT"] = NaN
          /\ trees[i].cols["HT"] = 15
          /\ table_file.rows[Expected[j]]["HT"] = 15
          /\ trees[j].cols["HT"] = 12

====
